---- MODULE Spec2Model ----
(***************************************************************************)
(* ragdaemon: the staged refresh pipeline (Hierarchy, Chunker,             *)
(* LayoutHierarchy) over a content-addressed store, and the token-budgeted *)
(* context assembler of the Daemon.                                        *)
(*                                                                         *)
(* Python dicts are functions over the keys they hold, so that a lookup    *)
(* data["k"] is defined exactly when "k" \in DOMAIN data.  Node ids and    *)
(* refs are kept structured: a path is the sequence of its components, a   *)
(* chunk id "path:a.b" is [path, cp] with cp the sequence of the           *)
(* ':'-separated parts after the path, each the sequence of its            *)
(* '.'-separated segments.                                                 *)
(***************************************************************************)
EXTENDS Integers, Sequences, FiniteSets, Bags, TLC

VARIABLES
    fs,        \* the working tree: tracked path -> [kind, lines]
    db,        \* the store: checksum -> [document, metadata]
    graph,     \* Daemon.graph
    saved,     \* the persisted snapshot graph.json (<<>> before the first save)
    pc,        \* position of refresh(): idle, hierarchy, chunker, tasks, merge, layout, adopt
    work,      \* _graph, the working copy of refresh()
    pending,   \* file nodes whose get_file_chunk_data task has not finished
    ran,       \* stages whose annotate ran in the current refresh
    writes,    \* number of upsert/update calls of the current refresh
    outcome,   \* how the last refresh() ended: none, ok, raised
    start,     \* Daemon.graph and snapshot when the current refresh began
    lastOk,    \* the last successful refresh: its graph and tree, and whether the tree changed since it began
    taskLog,   \* the tasks of the current Chunker.annotate: state, lines read, detector output, checksum
    batch,     \* ids of the upsert batch of the last Chunker.annotate
    edits,     \* number of working-tree changes so far
    refreshes, \* number of refresh() calls so far
    ctx,       \* the get_context_message call in progress or last finished
    builder,   \* a ContextBuilder: path -> [lines, comments], with what was added and removed so far
    lookup     \* chunk ids whose store lookup raised in the last merge step

vars == <<fs, db, graph, saved, pc, work, pending, ran, writes,
          outcome, start, lastOk, taskLog, batch, edits, refreshes, ctx, builder, lookup>>

-----------------------------------------------------------------------------
(* Bounds of the model *)

MaxEdits == 1
MaxRefreshes == 2

-----------------------------------------------------------------------------
(* The working tree *)

APy == <<"a.py">>
BPy == <<"d", "b.py">>
CMd == <<"d", "c.md">>

\* get_non_gitignored_files lists the tracked paths in one fixed order
PathOrder == <<APy, BPy, CMd>>
Paths == {PathOrder[i] : i \in 1..Len(PathOrder)}

\* Path(x).suffix of the modelled file names
Suffix(path) ==
    CASE path[Len(path)] \in {"a.py", "b.py"} -> ".py"
      [] path[Len(path)] = "c.md" -> ".md"
      [] OTHER -> ""

\* Chunker.__init__: the default chunk_extensions hold .py and not .md
chunk_extensions == {".py", ".js", ".java", ".html", ".css", ".sql"}

Absent == [kind |-> "absent", lines |-> <<>>]
Binary == [kind |-> "binary", lines |-> <<>>]
Text(ls) == [kind |-> "text", lines |-> ls]

Texts == {<<>>, <<1>>, <<1, 2>>}
FileStates == {Absent, Binary} \cup {Text(ls) : ls \in Texts}

IsPrefix(s, t) == Len(s) <= Len(t) /\ SubSeq(t, 1, Len(s)) = s

-----------------------------------------------------------------------------
(* Ids, refs, documents, checksums *)

FileId(path) == [path |-> path, cp |-> <<>>]
ChunkId(path, segs) == [path |-> path, cp |-> <<segs>>]
BaseId(path) == ChunkId(path, <<"BASE">>)
ROOT == FileId(<<"ROOT">>)

\* a ref "path" (runs empty) or "path:r1,r2,..." ; a run is <<n>> or <<s, e>>
PathRef(path) == [path |-> path, runs |-> <<>>]

RECURSIVE RunLines(_, _)
\* the line numbers a ref's ranges name: "s-e" is range(int(s), int(e) + 1)
RunLines(runs, i) ==
    IF i > Len(runs) THEN {}
    ELSE (IF Len(runs[i]) = 2 THEN runs[i][1]..runs[i][2] ELSE {runs[i][1]})
         \cup RunLines(runs, i + 1)

RefLines(ref, n) == IF ref.runs = <<>> THEN 1..n ELSE RunLines(ref.runs, 1)

RECURSIVE Ascending(_)
\* sorted(list(S)) of a set of integers
Ascending(S) ==
    IF S = {} THEN <<>>
    ELSE LET m == CHOOSE x \in S : \A y \in S : x <= y
         IN <<m>> \o Ascending(S \ {m})

\* get_document(ref, cwd): the ref as header line, then the lines the ref
\* selects from the file as it is now; fails on a file that is missing or not
\* text and on a line the file does not have
CanResolve(ref, tree) ==
    /\ ref.path \in DOMAIN tree
    /\ tree[ref.path].kind = "text"
    /\ RefLines(ref, Len(tree[ref.path].lines)) \subseteq 1..Len(tree[ref.path].lines)

get_document(ref, tree) ==
    LET ls == tree[ref.path].lines
        sel == Ascending(RefLines(ref, Len(ls)))
    IN [ref |-> ref, text |-> [i \in 1..Len(sel) |-> ls[sel[i]]]]

\* hash_str: a collision-free digest
hash_str(document) == [md5 |-> document]

-----------------------------------------------------------------------------
(* The store (database.py get_db: one persistent collection per cwd) *)

Has(store, checksum) == checksum \in DOMAIN store

\* collection.upsert(ids, documents, metadatas), entry by entry
RECURSIVE Upsert(_, _)
Upsert(store, entries) ==
    IF entries = <<>> THEN store
    ELSE Upsert((entries[1].id :> [document |-> entries[1].document,
                                   metadata |-> entries[1].metadata]) @@ store,
                Tail(entries))

\* an update that writes the metadata into every record of the store
UpdateEveryRecord(store, checksum, m) ==
    [c \in DOMAIN store |-> [document |-> store[c].document, metadata |-> m]]

\* collection.update(id, metadatas=m)
Update(store, checksum, m) ==
    (checksum :> [document |-> store[checksum].document, metadata |-> m]) @@ store

Put(dict, key, value) == (key :> value) @@ dict

NoNodes == [n \in {} |-> <<>>]
NoAttrs == [k \in {} |-> <<>>]

-----------------------------------------------------------------------------
(* Hierarchy (annotators/hierarchy.py) *)

Tracked(tree) == {p \in Paths : tree[p].kind # "absent"}

\* a listing that gives every tracked path a checksum, decoded or not
ReadableOrNot(tree) == {p \in Paths : tree[p].kind # "absent"}

\* the paths get_active_checksums gives a checksum: a file that does not
\* decode raises UnicodeDecodeError and is passed over
Readable(tree) == {p \in Paths : CanResolve(PathRef(p), tree)}

FileChecksum(path, tree) == hash_str(get_document(PathRef(path), tree))

FileRecord(path, tree) ==
    [id |-> FileId(path), type |-> "file", path |-> path,
     checksum |-> FileChecksum(path, tree), active |-> FALSE]

RECURSIVE NewFileEntries(_, _, _)
\* add_to_db of get_active_checksums: one entry per path, in listing order,
\* whose checksum has no record in the store
NewFileEntries(tree, store, i) ==
    IF i > Len(PathOrder) THEN <<>>
    ELSE LET p == PathOrder[i]
             rest == NewFileEntries(tree, store, i + 1)
         IN IF p \in Readable(tree) /\ ~Has(store, FileChecksum(p, tree))
            THEN <<[id |-> FileChecksum(p, tree),
                    document |-> get_document(PathRef(p), tree),
                    metadata |-> FileRecord(p, tree)]>> \o rest
            ELSE rest

\* the store after get_active_checksums(cwd)
get_active_checksums(tree, store) == Upsert(store, NewFileEntries(tree, store, 1))

\* a fingerprint over the files' text alone, whatever their paths
files_checksum_of_text(tree) ==
    LET ts == {tree[p].lines : p \in {q \in Paths : tree[q].kind = "text"}}
    IN [md5 |-> [t \in ts |-> Cardinality({p \in Paths : tree[p].kind = "text" /\ tree[p].lines = t})]]

\* hash_str("".join(sorted(checksums.values()))): fixed-width digests, sorted
\* and joined, are the multiset of the checksums
files_checksum(tree) ==
    LET cs == {FileChecksum(p, tree) : p \in Readable(tree)}
    IN hash_str([c \in cs |-> Cardinality({p \in Readable(tree) : FileChecksum(p, tree) = c})])

\* a completeness test that reads the fingerprint under a key the graph
\* never has
HierarchyIsCompleteMiskeyed(g, tree) ==
    "files_checksums" \in DOMAIN g.attrs /\ g.attrs["files_checksums"] = files_checksum(tree)

HierarchyIsComplete(g, tree) ==
    "files_checksum" \in DOMAIN g.attrs /\ g.attrs["files_checksum"] = files_checksum(tree)

\* _link_to_cwd: the (parent, child) pairs from a path up to ROOT
ParentOf(path) == IF Len(path) > 1 THEN FileId(SubSeq(path, 1, Len(path) - 1)) ELSE ROOT

\* a _link_to_cwd that links a path to its parent and does not go further up
LinkToCwdOneLevel(path) ==
    {<<ParentOf(path), FileId(path)>>}

LinkToCwd(path) ==
    {<<ParentOf(SubSeq(path, 1, k)), FileId(SubSeq(path, 1, k))>> : k \in 1..Len(path)}

DirectoryRecord(id) == [id |-> id, type |-> "directory", path |-> id.path]

\* Hierarchy.annotate, given the store after its get_active_checksums
HierarchyAnnotate(tree, store) ==
    LET files == Readable(tree)
        edges == UNION {LinkToCwd(p) : p \in files}
        ends == {e[1] : e \in edges} \cup {e[2] : e \in edges}
        ids == {FileId(p) : p \in files} \cup ends
    IN [nodes |-> [n \in ids |->
                      IF n.path \in files
                      THEN store[FileChecksum(n.path, tree)].metadata
                      ELSE DirectoryRecord(n)],
        edges |-> SetToBag(edges),
        attrs |-> [cwd |-> "cwd", files_checksum |-> files_checksum(tree)]]

-----------------------------------------------------------------------------
(* Chunker (annotators/chunker.py) *)

\* a validation without the test that a chunk name is specified
is_chunk_valid_unnamed(chunk) ==
    /\ DOMAIN chunk = {"id", "start_line", "end_line"}
    /\ Len(chunk.id.cp) = 1

is_chunk_valid(chunk) ==
    /\ DOMAIN chunk = {"id", "start_line", "end_line"}
    /\ Len(chunk.id.cp) = 1
    /\ Len(chunk.id.cp[1]) > 0

RECURSIVE Covered(_, _)
\* the lines the detector's chunks cover
Covered(chunks, i) ==
    IF i > Len(chunks) THEN {}
    ELSE (chunks[i].start_line..chunks[i].end_line) \cup Covered(chunks, i + 1)

RECURSIVE BaseRuns(_, _, _, _)
\* the loop that groups the sorted BASE lines into runs: a run closed inside
\* the loop is written "n" when it has one line, the last run is always
\* written "start-end"
BaseRuns(sorted, i, s, e) ==
    IF i > Len(sorted) THEN << <<s, e>> >>
    ELSE IF sorted[i] = e + 1 THEN BaseRuns(sorted, i + 1, s, sorted[i])
    ELSE <<(IF s = e THEN <<s>> ELSE <<s, e>>)>> \o BaseRuns(sorted, i + 1, sorted[i], sorted[i])

base_chunk_refs(n, chunks) ==
    LET base_chunk_lines == (1..n) \ Covered(chunks, 1)
        sorted == Ascending(base_chunk_lines)
    IN IF base_chunk_lines = {} THEN <<>>
       ELSE BaseRuns(sorted, 2, sorted[1], sorted[1])

\* the standardized chunk list of get_file_chunk_data: the detector's chunks
\* as {id, ref}, then the BASE chunk; empty when the detector found nothing
StandardChunks(path, n, chunks) ==
    IF chunks = <<>> THEN <<>>
    ELSE [i \in 1..Len(chunks) |->
             [id |-> chunks[i].id,
              ref |-> [path |-> path,
                       runs |-> << <<chunks[i].start_line, chunks[i].end_line>> >>]]]
         \o <<[id |-> BaseId(path), ref |-> [path |-> path, runs |-> base_chunk_refs(n, chunks)]]>>

\* json.dumps / json.loads of a chunk list
JsonDumps(items) == [json |-> TRUE, items |-> items]
JsonLoads(value) == [json |-> FALSE, items |-> value.items]
AsList(items) == [json |-> FALSE, items |-> items]

\* whether the detector output lets get_file_chunk_data finish
TaskSucceeds(path, tree, store, data, detected) ==
    /\ CanResolve(PathRef(path), tree)
    /\ (tree[path].lines # <<>> =>
            /\ detected.raises = FALSE
            /\ \A i \in 1..Len(detected.chunks) : is_chunk_valid(detected.chunks[i]))
    /\ "checksum" \in DOMAIN data
    /\ Has(store, data["checksum"])

\* what chunk_file returned to the task; nothing when the file could not be
\* read or has no line, or when chunk_file raised
Called(path, tree, detected) ==
    IF CanResolve(PathRef(path), tree) /\ tree[path].lines # <<>> /\ ~detected.raises
    THEN detected.chunks ELSE <<>>

TaskChunks(path, tree, detected) ==
    IF tree[path].lines = <<>> THEN <<>>
    ELSE StandardChunks(path, Len(tree[path].lines), detected.chunks)

\* one chunk as the boundary detector returns it
Chunk(id, s, e) == [id |-> id, start_line |-> s, end_line |-> e]

\* what chunk_file may return for a file of n >= 1 lines: nothing, one
\* top-level chunk, a chunk over the whole file, a class with a method, a
\* method without its class, a chunk past the end of the file, two ids over
\* the same lines, an id with an empty chunk path, an id without ':', an id
\* with two ':', a chunk with a fourth key; or it raises
DetectorOutputs(path, n) ==
    LET A == ChunkId(path, <<"A">>)
        Am == ChunkId(path, <<"A", "m">>)
        B == ChunkId(path, <<"B">>)
        Nameless == ChunkId(path, <<>>)
    IN {[raises |-> FALSE, chunks |-> cs] : cs \in
          { <<>>,
            <<Chunk(A, 1, 1)>>,
            <<Chunk(A, 1, n)>>,
            <<Chunk(A, 1, n), Chunk(Am, 1, 1)>>,
            <<Chunk(Am, 1, 1)>>,
            <<Chunk(A, n, n + 1)>>,
            <<Chunk(A, 1, 1), Chunk(B, 1, 1)>>,
            <<Chunk(A, 1, 1), Chunk(Nameless, 1, n)>>,
            <<Chunk(FileId(path), 1, 1)>>,
            <<Chunk([path |-> path, cp |-> << <<"A">>, <<"B">> >>], 1, 1)>>,
            <<[id |-> A, start_line |-> 1, end_line |-> 1, name |-> "A"]>> }}
       \cup {[raises |-> TRUE, chunks |-> <<>>]}

\* a _link_to_base_chunk that adds the edge from the parent id and stops there
LinkToBaseOneLevel(id, base_id) ==
    LET chunk_list == id.cp[1]
        parent == IF Len(chunk_list) > 1
                  THEN ChunkId(id.path, SubSeq(chunk_list, 1, Len(chunk_list) - 1))
                  ELSE base_id
    IN {<<parent, id>>}

\* _link_to_base_chunk: the edges from a chunk id up to the file's BASE chunk
RECURSIVE LinkToBase(_, _)
LinkToBase(id, base_id) ==
    LET chunk_list == id.cp[1]
        parent == IF Len(chunk_list) > 1
                  THEN ChunkId(id.path, SubSeq(chunk_list, 1, Len(chunk_list) - 1))
                  ELSE base_id
    IN {<<parent, id>>} \cup (IF parent # base_id THEN LinkToBase(parent, base_id) ELSE {})

\* a chunk record that keeps the path of the chunk's ref and not its lines
ChunkRecordOfPath(chunk, checksum) ==
    [id |-> chunk.id, type |-> "chunk", ref |-> PathRef(chunk.ref.path),
     checksum |-> checksum, active |-> FALSE]

ChunkRecord(chunk, checksum) ==
    [id |-> chunk.id, type |-> "chunk", ref |-> chunk.ref,
     checksum |-> checksum, active |-> FALSE]

\* graph.add_node(id, **record): a node that exists keeps its other attributes
AddNode(nodes, id, record) ==
    Put(nodes, id, IF id \in DOMAIN nodes THEN record @@ nodes[id] ELSE record)

\* graph.add_edge of every pair of a set: one more parallel edge each, and
\* an endpoint that is no node yet becomes a node without attributes
AddEdges(g, pairs) ==
    LET ends == {e[1] : e \in pairs} \cup {e[2] : e \in pairs}
    IN [g EXCEPT !.nodes = [n \in DOMAIN g.nodes \cup ends |->
                                IF n \in DOMAIN g.nodes THEN g.nodes[n] ELSE NoAttrs],
                 !.edges = g.edges (+) SetToBag(pairs)]

RECURSIVE ChunkLoopStopping(_, _, _, _, _, _, _)
\* a loop over a file's chunks that ends at the first chunk it cannot add
ChunkLoopStopping(chunks, i, base_id, tree, store, raising, acc) ==
    IF i > Len(chunks) THEN acc
    ELSE LET chunk == chunks[i]
         IN IF ~CanResolve(chunk.ref, tree) \/ chunk.id \in raising
            THEN acc
            ELSE LET document == get_document(chunk.ref, tree)
                     checksum == hash_str(document)
                     stored == Has(store, checksum)
                     record == IF stored THEN store[checksum].metadata
                               ELSE ChunkRecord(chunk, checksum)
                     entry == [id |-> checksum, document |-> document, metadata |-> record]
                 IN ChunkLoopStopping(chunks, i + 1, base_id, tree, store, raising,
                        [nodes |-> AddNode(acc.nodes, record.id, record),
                         entries |-> IF stored THEN acc.entries ELSE Append(acc.entries, entry),
                         edges |-> acc.edges \cup LinkToBase(chunk.id, base_id)])

RECURSIVE ChunkLoop(_, _, _, _, _, _, _)
\* the loop over a file's chunks in add_file_chunks_to_graph: acc holds the
\* nodes, the upsert entries and edges_to_add so far
ChunkLoop(chunks, i, base_id, tree, store, raising, acc) ==
    IF i > Len(chunks) THEN acc
    ELSE LET chunk == chunks[i]
         IN IF ~CanResolve(chunk.ref, tree) \/ chunk.id \in raising
            THEN ChunkLoop(chunks, i + 1, base_id, tree, store, raising, acc)
            ELSE LET document == get_document(chunk.ref, tree)
                     checksum == hash_str(document)
                     stored == Has(store, checksum)
                     record == IF stored THEN store[checksum].metadata
                               ELSE ChunkRecord(chunk, checksum)
                     entry == [id |-> checksum, document |-> document, metadata |-> record]
                 IN ChunkLoop(chunks, i + 1, base_id, tree, store, raising,
                        [nodes |-> AddNode(acc.nodes, record.id, record),
                         entries |-> IF stored THEN acc.entries ELSE Append(acc.entries, entry),
                         edges |-> acc.edges \cup LinkToBase(chunk.id, base_id)])

\* add_file_chunks_to_graph(file, data, graph): the graph afterwards and the
\* entries it returns for the upsert batch
add_file_chunks_to_graph(file, g, tree, store, raising) ==
    LET data == g.nodes[FileId(file)]
        loaded == IF data["chunks"].json
                  THEN [g EXCEPT !.nodes[FileId(file)] = Put(data, "chunks", JsonLoads(data["chunks"]))]
                  ELSE g
        chunks == data["chunks"].items
        acc == ChunkLoop(chunks, 1, BaseId(file), tree, store, raising,
                   [nodes |-> loaded.nodes, entries |-> <<>>,
                    edges |-> {<<FileId(file), BaseId(file)>>}])
    IN IF chunks = <<>> THEN [graph |-> loaded, entries |-> <<>>]
       ELSE [graph |-> AddEdges([loaded EXCEPT !.nodes = acc.nodes], acc.edges),
             entries |-> acc.entries]

\* the file nodes of a graph, in node order
IsFileNode(g, path) ==
    /\ FileId(path) \in DOMAIN g.nodes
    /\ "type" \in DOMAIN g.nodes[FileId(path)]
    /\ g.nodes[FileId(path)]["type"] = "file"

ChunksUnset(data) == "chunks" \notin DOMAIN data

RECURSIVE ChunkerScan(_, _)
\* Chunker.is_complete: "KeyError" when it reads data["ref"] of a file node
\* that has no ref
ChunkerScan(g, i) ==
    IF i > Len(PathOrder) THEN "True"
    ELSE LET data == g.nodes[FileId(PathOrder[i])]
         IN IF IsFileNode(g, PathOrder[i]) /\ ChunksUnset(data)
            THEN IF "ref" \notin DOMAIN data THEN "KeyError"
                 ELSE IF Suffix(data["ref"].path) \in chunk_extensions THEN "False"
                 ELSE ChunkerScan(g, i + 1)
            ELSE ChunkerScan(g, i + 1)

ChunkerIsComplete(g) == ChunkerScan(g, 1)

\* Chunker.annotate, lines 222-232: the file nodes it works on; reading
\* data["ref"] of any file node without one raises KeyError
AllHaveRef(g) ==
    \A p \in Paths : IsFileNode(g, p) => "ref" \in DOMAIN g.nodes[FileId(p)]

file_nodes(g) ==
    {p \in Paths : IsFileNode(g, p) /\ Suffix(g.nodes[FileId(p)]["ref"].path) \in chunk_extensions}

ChunkTasks(g) == {p \in file_nodes(g) : ChunksUnset(g.nodes[FileId(p)])}

RECURSIVE MergeLoop(_, _, _, _, _, _)
\* Chunker.annotate, lines 248-254: add_file_chunks_to_graph file by file
MergeLoop(i, g, tree, store, raising, entries) ==
    IF i > Len(PathOrder) THEN [graph |-> g, entries |-> entries]
    ELSE IF PathOrder[i] \in file_nodes(g)
    THEN LET r == add_file_chunks_to_graph(PathOrder[i], g, tree, store, raising)
         IN MergeLoop(i + 1, r.graph, tree, store, raising, entries \o r.entries)
    ELSE MergeLoop(i + 1, g, tree, store, raising, entries)

-----------------------------------------------------------------------------
(* LayoutHierarchy (annotators/layout_hierarchy.py); coordinates are not modelled *)

HasLayout(data) == "layout" \in DOMAIN data

LayoutIsComplete(g) == \A n \in DOMAIN g.nodes : HasLayout(g.nodes[n])

LayoutAnnotate(g) ==
    [g EXCEPT !.nodes = [n \in DOMAIN g.nodes |-> Put(g.nodes[n], "layout", "xyz")]]

-----------------------------------------------------------------------------
(* Daemon (daemon.py) *)

EmptyGraph == [nodes |-> NoNodes, edges |-> EmptyBag, attrs |-> [cwd |-> "cwd"]]

\* what two graphs are compared on: nodes, node attributes, edges, files_checksum
Core(g) ==
    [nodes |-> g.nodes, edges |-> g.edges,
     files_checksum |-> IF "files_checksum" \in DOMAIN g.attrs
                        THEN <<g.attrs["files_checksum"]>> ELSE <<>>]

\* a file record as a hierarchy pass that names the location "ref" wrote it
RefRecord(path, tree) == Put(FileRecord(path, tree), "ref", PathRef(path))

SeededStore(tree) ==
    [c \in {FileChecksum(p, tree) : p \in Readable(tree)} |->
        LET p == CHOOSE q \in Readable(tree) : FileChecksum(q, tree) = c
        IN [document |-> get_document(PathRef(p), tree), metadata |-> RefRecord(p, tree)]]

\* no get_context_message call has been made since the last refresh began
NoCall ==
    [pc |-> "none", max_tokens |-> 0, auto_tokens |-> 0, include_tokens |-> 0,
     budget |-> 0, results |-> <<>>, i |-> 0, context |-> <<>>,
     explicit |-> <<>>, full |-> <<>>, named |-> <<>>]

\* the working trees the daemon is constructed over
InitTrees ==
    {[p \in Paths |-> IF p = APy THEN a ELSE IF p = BPy THEN b ELSE c] :
        a \in {Text(<<>>), Text(<<1, 2>>)},
        b \in {Absent, Text(<<1, 2>>)},
        c \in {Absent, Binary, Text(<<1>>)}}

\* The store is persistent (database.py:17-31) and Daemon.__init__ takes it
\* as it finds it: empty, or holding the tracked files' records with the ref
\* key the chunker reads.
Init ==
    /\ fs \in InitTrees
    /\ db \in {NoNodes, SeededStore(fs)}
    /\ graph = EmptyGraph
    /\ saved = <<>>
    /\ pc = "idle"
    /\ work = EmptyGraph
    /\ pending = {}
    /\ ran = {}
    /\ writes = 0
    /\ outcome = "none"
    /\ start = [graph |-> Core(EmptyGraph), saved |-> <<>>]
    /\ lastOk = [valid |-> FALSE, clean |-> TRUE, graph |-> Core(EmptyGraph), tree |-> fs]
    /\ taskLog = NoNodes
    /\ batch = <<>>
    /\ edits = 0
    /\ refreshes = 0
    /\ ctx = NoCall
    /\ builder = NoNodes
    /\ lookup = {}

\* the working tree changes under the daemon: a file is added, deleted or
\* edited.  refresh() reads the tree in the Hierarchy stage, in the tasks and
\* in the merge step, so a change at any other moment acts like one made
\* while the daemon is idle or while the tasks run.
EditFile(path, state) ==
    /\ edits < MaxEdits
    /\ pc \in {"idle", "tasks"}
    /\ state # fs[path]
    /\ fs' = [fs EXCEPT ![path] = state]
    /\ edits' = edits + 1
    /\ lastOk' = [lastOk EXCEPT !.valid = FALSE, !.clean = FALSE]
    /\ UNCHANGED <<db, graph, saved, pc, work, pending, ran, writes,
                   outcome, start, taskLog, batch, refreshes, ctx,
                   builder, lookup>>

\* a tracked file is renamed or moved with its content as it is
MoveFile(from, to) ==
    /\ edits < MaxEdits
    /\ pc \in {"idle", "tasks"}
    /\ fs[from].kind # "absent"
    /\ fs[to].kind = "absent"
    /\ fs' = [fs EXCEPT ![from] = Absent, ![to] = fs[from]]
    /\ edits' = edits + 1
    /\ lastOk' = [lastOk EXCEPT !.valid = FALSE, !.clean = FALSE]
    /\ UNCHANGED <<db, graph, saved, pc, work, pending, ran, writes,
                   outcome, start, taskLog, batch, refreshes, ctx,
                   builder, lookup>>

\* refresh(), lines 52-53: copy the graph, then flag the daemon's graph
RefreshBegin ==
    /\ pc = "idle"
    /\ ctx.pc \notin {"search", "merge"}
    /\ refreshes < MaxRefreshes
    /\ refreshes' = refreshes + 1
    /\ work' = graph
    /\ graph' = [graph EXCEPT !.attrs = Put(graph.attrs, "refreshing", TRUE)]
    /\ start' = [graph |-> Core(graph), saved |-> saved]
    /\ lastOk' = [lastOk EXCEPT !.clean = TRUE]
    /\ ran' = {}
    /\ writes' = 0
    /\ taskLog' = NoNodes
    /\ pc' = "hierarchy"
    /\ ctx' = NoCall
    /\ lookup' = {}
    /\ UNCHANGED <<fs, db, saved, pending, outcome, batch, edits, builder>>

\* a refresh that assigns its working copy on the way out of an exception
RaiseAssigning ==
    /\ pc' = "idle"
    /\ outcome' = "raised"
    /\ lastOk' = [lastOk EXCEPT !.valid = FALSE]
    /\ graph' = work
    /\ work' = EmptyGraph
    /\ writes' = 0
    /\ UNCHANGED <<saved, ran, start, batch, edits, refreshes, ctx,
                   builder, lookup>>

\* the exception leaves refresh(): nothing is assigned, nothing is saved,
\* and the working copy is gone with the call
Raise ==
    /\ pc' = "idle"
    /\ outcome' = "raised"
    /\ lastOk' = [lastOk EXCEPT !.valid = FALSE]
    /\ work' = EmptyGraph
    /\ writes' = 0
    /\ UNCHANGED <<graph, saved, ran, start, batch, edits, refreshes, ctx,
                   builder, lookup>>

\* a Hierarchy stage whose annotate runs whatever is_complete returned
HierarchyStageUnconditional ==
    /\ pc = "hierarchy"
    /\ db' = get_active_checksums(fs, db)
    /\ writes' = writes + (IF NewFileEntries(fs, db, 1) # <<>> THEN 1 ELSE 0)
    /\ work' = HierarchyAnnotate(fs, db')
    /\ ran' = ran \cup {"hierarchy"}
    /\ pc' = "chunker"
    /\ UNCHANGED <<fs, graph, saved, pending, outcome, start, lastOk,
                   taskLog, batch, edits, refreshes, ctx,
                   builder, lookup>>

\* the Hierarchy stage: is_complete (which runs get_active_checksums), and
\* annotate when the fingerprint differs
HierarchyStage ==
    /\ pc = "hierarchy"
    /\ db' = get_active_checksums(fs, db)
    /\ writes' = writes + (IF NewFileEntries(fs, db, 1) # <<>> THEN 1 ELSE 0)
    /\ IF HierarchyIsComplete(work, fs)
       THEN UNCHANGED <<work, ran>>
       ELSE /\ work' = HierarchyAnnotate(fs, db')
            /\ ran' = ran \cup {"hierarchy"}
    /\ pc' = "chunker"
    /\ UNCHANGED <<fs, graph, saved, pending, outcome, start, lastOk,
                   taskLog, batch, edits, refreshes, ctx,
                   builder, lookup>>

\* Chunker.is_complete returns True: the stage is passed over
ChunkerSkip ==
    /\ pc = "chunker"
    /\ ChunkerIsComplete(work) = "True"
    /\ pc' = "layout"
    /\ UNCHANGED <<fs, db, graph, saved, work, pending, ran, writes,
                   outcome, start, lastOk, taskLog, batch, edits, refreshes, ctx,
                   builder, lookup>>

\* Chunker.is_complete, or the file_nodes filter of Chunker.annotate, reads
\* the ref of a file node that has none
ChunkerKeyError ==
    /\ pc = "chunker"
    /\ \/ ChunkerIsComplete(work) = "KeyError"
       \/ ChunkerIsComplete(work) = "False" /\ ~AllHaveRef(work)
    /\ Raise
    /\ UNCHANGED <<fs, db, pending, taskLog>>

\* Chunker.annotate begins: one get_file_chunk_data task per file node
\* without chunks
ChunkerStart ==
    /\ pc = "chunker"
    /\ ChunkerIsComplete(work) = "False"
    /\ AllHaveRef(work)
    /\ pending' = ChunkTasks(work)
    /\ taskLog' = [p \in ChunkTasks(work) |->
                      [state |-> "pending", n |-> 0, detected |-> <<>>,
                       checksum |-> work.nodes[FileId(p)]["checksum"]]]
    /\ ran' = ran \cup {"chunker"}
    /\ pc' = "tasks"
    /\ UNCHANGED <<fs, db, graph, saved, work, writes, outcome, start,
                   lastOk, batch, edits, refreshes, ctx,
                   builder, lookup>>

\* get_file_chunk_data runs to its end for one file
TaskDone(path, detected) ==
    /\ pc = "tasks"
    /\ path \in pending
    /\ TaskSucceeds(path, fs, db, work.nodes[FileId(path)], detected)
    /\ LET data == work.nodes[FileId(path)]
           chunks == TaskChunks(path, fs, detected)
       IN /\ db' = Update(db, data["checksum"],
                          Put(db[data["checksum"]].metadata, "chunks", JsonDumps(chunks)))
          /\ work' = [work EXCEPT !.nodes[FileId(path)] = Put(data, "chunks", AsList(chunks))]
          /\ taskLog' = [taskLog EXCEPT ![path] =
                            [state |-> "done", n |-> Len(fs[path].lines),
                             detected |-> Called(path, fs, detected),
                             checksum |-> data["checksum"]]]
    /\ pending' = pending \ {path}
    /\ writes' = writes + 1
    /\ UNCHANGED <<fs, graph, saved, pc, ran, outcome, start, lastOk,
                   batch, edits, refreshes, ctx,
                   builder, lookup>>

\* get_file_chunk_data raises for one file: gather re-raises at once.  A
\* task that finishes after that changes the store as one that finished just
\* before it, and its graph is the dropped working copy: the tasks still
\* pending are not followed further.
TaskFails(path, detected) ==
    /\ pc = "tasks"
    /\ path \in pending
    /\ ~TaskSucceeds(path, fs, db, work.nodes[FileId(path)], detected)
    /\ taskLog' = [taskLog EXCEPT ![path] =
                      [state |-> "failed", n |-> Len(fs[path].lines),
                       detected |-> Called(path, fs, detected),
                       checksum |-> @.checksum]]
    /\ pending' = {}
    /\ Raise
    /\ UNCHANGED <<fs, db>>

\* the chunk ids of the lists the merge step goes through
ListedIds(g) ==
    UNION {{g.nodes[FileId(p)]["chunks"].items[i].id :
               i \in 1..Len(g.nodes[FileId(p)]["chunks"].items)} : p \in file_nodes(g)}

\* the store lookups that raise during one merge step: none, or the one for
\* the chunk A of a.py
LookupFailures == {{}, {ChunkId(APy, <<"A">>)}}

\* Chunker.annotate, lines 248-257, once gather has returned; raising holds
\* the chunk ids for which get_db(cwd).get(checksum) raises
ChunkerMerge(raising) ==
    /\ pc = "tasks"
    /\ pending = {}
    /\ raising \subseteq ListedIds(work)
    /\ lookup' = raising
    /\ LET r == MergeLoop(1, work, fs, db, raising, <<>>)
       IN /\ work' = r.graph
          /\ batch' = [i \in 1..Len(r.entries) |-> r.entries[i].id]
          /\ db' = Upsert(db, r.entries)
          /\ writes' = writes + (IF r.entries # <<>> THEN 1 ELSE 0)
    /\ pc' = "layout"
    /\ UNCHANGED <<fs, graph, saved, pending, ran, outcome, start,
                   lastOk, taskLog, edits, refreshes, ctx,
                   builder>>

LayoutStage ==
    /\ pc = "layout"
    /\ IF LayoutIsComplete(work)
       THEN UNCHANGED <<work, ran>>
       ELSE /\ work' = LayoutAnnotate(work)
            /\ ran' = ran \cup {"layout"}
    /\ pc' = "adopt"
    /\ UNCHANGED <<fs, db, graph, saved, pending, writes, outcome,
                   start, lastOk, taskLog, batch, edits, refreshes, ctx,
                   builder, lookup>>

\* refresh(), lines 57-58: self.graph = _graph; self.save()
Adopt ==
    /\ pc = "adopt"
    /\ graph' = work
    /\ saved' = <<work>>
    /\ pc' = "idle"
    /\ outcome' = "ok"
    /\ lastOk' = [valid |-> lastOk.clean, clean |-> TRUE, graph |-> Core(work), tree |-> fs]
    /\ UNCHANGED <<fs, db, work, pending, ran, writes, start, taskLog,
                   batch, edits, refreshes, ctx,
                   builder, lookup>>

\* a store call raises, or the awaiting caller is cancelled, inside a stage
StageAborted ==
    /\ pc \in {"hierarchy", "chunker", "tasks", "layout"}
    /\ pending' = {}
    /\ Raise
    /\ UNCHANGED <<fs, db, taskLog>>

Next ==
    \/ \E p \in Paths, st \in FileStates : EditFile(p, st)
    \/ \E p, q \in Paths : MoveFile(p, q)
    \/ RefreshBegin
    \/ HierarchyStage
    \/ ChunkerSkip
    \/ ChunkerKeyError
    \/ ChunkerStart
    \/ \E p \in Paths : \E d \in DetectorOutputs(p, Len(fs[p].lines)) : TaskDone(p, d)
    \/ \E p \in Paths : \E d \in DetectorOutputs(p, Len(fs[p].lines)) : TaskFails(p, d)
    \/ \E r \in LookupFailures : ChunkerMerge(r)
    \/ LayoutStage
    \/ Adopt
    \/ StageAborted

Spec == Init /\ [][Next]_vars

-----------------------------------------------------------------------------
(* The context assembler (daemon.py render_context_message, get_context_message) *)

\* A rendered text is the sequence of its lines: the header of a block, a
\* numbered line, the ellipsis line, and the empty line between two blocks.
HeaderLine(data) == [kind |-> "header", id |-> data.id, tags |-> data.tags]
NumberedLine(n, text) == [kind |-> "line", n |-> n, text |-> text]
EllipsisLine == [kind |-> "ellipsis"]
BlankLine == [kind |-> "blank"]

\* the tokens of one rendered line: the id and every tag of a header, the
\* number and the text of a numbered line, the ellipsis
LineTokens(line) ==
    CASE line.kind = "header" -> 1 + Cardinality(line.tags)
      [] line.kind = "line" -> 2
      [] line.kind = "ellipsis" -> 1
      [] OTHER -> 0

RECURSIVE SumTokens(_, _)
SumTokens(text, i) ==
    IF i > Len(text) THEN 0 ELSE LineTokens(text[i]) + SumTokens(text, i + 1)

\* token_counter(text): the approximate size of a text
token_counter(text) == SumTokens(text, 1)

RECURSIVE RenderLinesFromFirst(_, _, _)
\* a loop that takes the first selected line as rendered before it starts
RenderLinesFromFirst(sorted, i, data) ==
    IF i > Len(sorted) THEN <<>>
    ELSE LET line == sorted[i]
             last_rendered == IF i = 1 THEN sorted[1] ELSE sorted[i - 1]
         IN (IF line - last_rendered > 1 THEN <<EllipsisLine>> ELSE <<>>)
            \o <<NumberedLine(line, data.document.text[line])>>
            \o RenderLinesFromFirst(sorted, i + 1, data)

RECURSIVE RenderLines(_, _, _)
\* the loop over sorted(data["lines"]): the document's first line is its
\* ref, so that file_lines[line] is line number `line` of the file
RenderLines(sorted, i, data) ==
    IF i > Len(sorted) THEN <<>>
    ELSE LET line == sorted[i]
             last_rendered == IF i = 1 THEN 0 ELSE sorted[i - 1]
         IN (IF line - last_rendered > 1 THEN <<EllipsisLine>> ELSE <<>>)
            \o <<NumberedLine(line, data.document.text[line])>>
            \o RenderLines(sorted, i + 1, data)

RECURSIVE RenderFrom(_, _)
RenderFrom(context, i) ==
    IF i > Len(context) THEN <<>>
    ELSE (IF i > 1 THEN <<BlankLine>> ELSE <<>>)
         \o <<HeaderLine(context[i])>>
         \o RenderLines(Ascending(context[i].lines), 1, context[i])
         \o RenderFrom(context, i + 1)

\* context is the dict of get_context_message in insertion order, each
\* entry with the path that is its key
render_context_message(context) == RenderFrom(context, 1)

Min(a, b) == IF a <= b THEN a ELSE b

\* a budget that leaves max_tokens out
RemainingBudgetAutoOnly(auto_tokens, max_tokens, include_tokens) == auto_tokens

\* line 132: what the search results may add
RemainingBudget(auto_tokens, max_tokens, include_tokens) ==
    Min(auto_tokens, max_tokens - include_tokens)

\* lines 97-125: an explicit reference whose path is no node is passed over
\* with a warning; for one whose path is a node, line 105 reads the node's
\* checksum (KeyError for a directory) and line 113 calls append on the set
\* of tags (AttributeError)
IncludeRaises(include, g) ==
    \E i \in 1..Len(include) : FileId(include[i].path) \in DOMAIN g.nodes

\* the context after the loop over include, when the loop did not raise
IncludedContext(include, g) == <<>>

\* the explicit references whose path is a node of the graph
NamedRefs(include, g) ==
    SelectSeq(include, LAMBDA r : FileId(r.path) \in DOMAIN g.nodes)

\* query_graph, lines 43-45: the checksums of the graph's nodes that have
\* a record
ActiveIds(g, store) ==
    {g.nodes[n]["checksum"] : n \in {m \in DOMAIN g.nodes : "checksum" \in DOMAIN g.nodes[m]}}
        \cap DOMAIN store

\* collection.update of the active flag of a set of records
Flag(store, ids, value) ==
    [c \in DOMAIN store |->
        IF c \in ids THEN [store[c] EXCEPT !.metadata = Put(@, "active", value)]
        ELSE store[c]]

RECURSIVE SeqOf(_)
SeqOf(S) ==
    IF S = {} THEN <<>>
    ELSE LET x == CHOOSE y \in S : TRUE IN <<x>> \o SeqOf(S \ {x})

\* the orders the store's distances may put the records in: the rotations
\* of one enumeration and of its reverse
Ranking(ids, k, rev) ==
    LET base == SeqOf(ids)
        n == Len(base)
        dir == IF rev THEN [j \in 1..n |-> base[n + 1 - j]] ELSE base
    IN [j \in 1..n |-> dir[((j - 1 + k) % n) + 1]]

\* query_graph, lines 57-63: a result is the record as the query saw it,
\* with its document and its distance (here its place in the ranking)
SearchResult(store, c, distance) ==
    Put(Put(Put(store[c].metadata, "active", TRUE), "document", store[c].document),
        "distance", distance)

\* the records the filter where={"active": True} lets through
Flagged(store) ==
    {c \in DOMAIN store : "active" \in DOMAIN store[c].metadata /\ store[c].metadata["active"]}

\* the store's answer to the query of line 50: the n_results nearest of the
\* flagged records, n_results being the number of records of the graph
Response(g, store, k, rev) ==
    LET order == Ranking(Flagged(Flag(store, ActiveIds(g, store), TRUE)), k, rev)
        n == Cardinality(ActiveIds(g, store))
    IN [j \in 1..n |-> SearchResult(store, order[j], j)]

\* the store after a query_graph whose query call raised: line 49 has set
\* the flags and lines 55-56 are not reached
query_graph_store_raised(g, store) ==
    Flag(store, ActiveIds(g, store), TRUE)

\* the store after query_graph: flags set for the query and reverted
query_graph_store(g, store) ==
    Flag(Flag(store, ActiveIds(g, store), TRUE), ActiveIds(g, store), FALSE)

KeyIndex(context, key) ==
    IF \E j \in 1..Len(context) : context[j].key = key
    THEN CHOOSE j \in 1..Len(context) : context[j].key = key
    ELSE 0

\* lines 135-157 for one result: the entry of its path is made or found,
\* tagged with the rank, and given every line of the document
MergeResult(context, node, rank) ==
    LET with == IF KeyIndex(context, node["path"]) = 0
                THEN Append(context, [key |-> node["path"], id |-> node["id"],
                                      lines |-> {}, tags |-> {},
                                      document |-> node["document"]])
                ELSE context
        j == KeyIndex(with, node["path"])
    IN [with EXCEPT ![j].tags = @ \cup {rank},
                    ![j].lines = @ \cup 1..Len(with[j].document.text)]

\* the arguments of the modelled calls
Includes == {<<>>, <<PathRef(<<"x.py">>)>>, <<PathRef(APy)>>,
             <<PathRef(<<"x.py">>), [path |-> CMd, runs |-> <<<<1>>>>]>>,
             <<[path |-> APy, runs |-> <<<<1>>>>], [path |-> APy, runs |-> <<<<1, 2>>>>]>>}
MaxTokenChoices == {0, 5, 12}
AutoTokenChoices == {0, 7, 12}

\* get_context_message up to the search, lines 96-132.  A call leaves the
\* graph as it found it and the store with every flag reverted, so that one
\* call between two refreshes stands for any number of them.
CtxCall(include, max_tokens, auto_tokens) ==
    /\ pc = "idle"
    /\ ctx.pc = "none"
    /\ LET call == [NoCall EXCEPT !.max_tokens = max_tokens, !.auto_tokens = auto_tokens,
                                  !.named = NamedRefs(include, graph)]
           context == IncludedContext(include, graph)
           explicit == render_context_message(context)
           include_tokens == token_counter(explicit)
       IN ctx' = IF IncludeRaises(include, graph)
                 THEN [call EXCEPT !.pc = "raised"]
                 ELSE [call EXCEPT
                          !.pc = IF include_tokens >= max_tokens THEN "returned" ELSE "search",
                          !.context = context, !.explicit = explicit, !.full = explicit,
                          !.include_tokens = include_tokens,
                          !.budget = RemainingBudget(auto_tokens, max_tokens, include_tokens)]
    /\ UNCHANGED <<fs, db, graph, saved, pc, work, pending, ran, writes,
                   outcome, start, lastOk, taskLog, batch, edits, refreshes,
                   builder, lookup>>

\* line 133: self.search(query), the store ranking the records
CtxSearch(k, rev) ==
    /\ ctx.pc = "search"
    /\ k < Cardinality(Flagged(query_graph_store_raised(graph, db))) \/ k = 0
    /\ db' = query_graph_store(graph, db)
    /\ ctx' = [ctx EXCEPT !.pc = "merge", !.i = 1, !.results = Response(graph, db, k, rev)]
    /\ UNCHANGED <<fs, graph, saved, pc, work, pending, ran, writes,
                   outcome, start, lastOk, taskLog, batch, edits, refreshes,
                   builder, lookup>>

\* line 133: the store's query call raises inside query_graph
CtxSearchFails ==
    /\ ctx.pc = "search"
    /\ ActiveIds(graph, db) # {}
    /\ db' = query_graph_store_raised(graph, db)
    /\ ctx' = [ctx EXCEPT !.pc = "raised"]
    /\ UNCHANGED <<fs, graph, saved, pc, work, pending, ran, writes,
                   outcome, start, lastOk, taskLog, batch, edits, refreshes,
                   builder, lookup>>

\* a loop that passes over a result that does not fit and goes on
CtxMergeSkipping ==
    /\ ctx.pc = "merge"
    /\ ctx.i <= Len(ctx.results)
    /\ LET node == ctx.results[ctx.i]
       IN IF "path" \notin DOMAIN node
          THEN ctx' = [ctx EXCEPT !.pc = "raised"]
          ELSE LET context == MergeResult(ctx.context, node, ctx.i)
                   next == render_context_message(context)
                   next_tokens == token_counter(next)
               IN ctx' = IF next_tokens - ctx.include_tokens > ctx.budget
                         THEN [ctx EXCEPT !.i = @ + 1]
                         ELSE [ctx EXCEPT !.i = @ + 1, !.context = context, !.full = next]
    /\ UNCHANGED <<fs, db, graph, saved, pc, work, pending, ran, writes,
                   outcome, start, lastOk, taskLog, batch, edits, refreshes,
                   builder, lookup>>

\* one turn of the loop over the results, lines 134-163
CtxMerge ==
    /\ ctx.pc = "merge"
    /\ ctx.i <= Len(ctx.results)
    /\ LET node == ctx.results[ctx.i]
       IN IF "path" \notin DOMAIN node
          THEN ctx' = [ctx EXCEPT !.pc = "raised"]
          ELSE LET context == MergeResult(ctx.context, node, ctx.i)
                   next == render_context_message(context)
                   next_tokens == token_counter(next)
               IN ctx' = IF next_tokens - ctx.include_tokens > ctx.budget
                         THEN [ctx EXCEPT !.pc = "returned", !.context = context]
                         ELSE [ctx EXCEPT !.i = @ + 1, !.context = context, !.full = next]
    /\ UNCHANGED <<fs, db, graph, saved, pc, work, pending, ran, writes,
                   outcome, start, lastOk, taskLog, batch, edits, refreshes,
                   builder, lookup>>

\* line 164: every result was merged
CtxReturn ==
    /\ ctx.pc = "merge"
    /\ ctx.i > Len(ctx.results)
    /\ ctx' = [ctx EXCEPT !.pc = "returned"]
    /\ UNCHANGED <<fs, db, graph, saved, pc, work, pending, ran, writes,
                   outcome, start, lastOk, taskLog, batch, edits, refreshes,
                   builder, lookup>>

\* the daemon refreshing an unchanging tree and answering context requests
NextContext ==
    \/ RefreshBegin
    \/ HierarchyStage
    \/ ChunkerSkip
    \/ ChunkerKeyError
    \/ ChunkerStart
    \/ \E p \in Paths : \E d \in DetectorOutputs(p, Len(fs[p].lines)) : TaskDone(p, d)
    \/ \E p \in Paths : \E d \in DetectorOutputs(p, Len(fs[p].lines)) : TaskFails(p, d)
    \/ ChunkerMerge({})
    \/ LayoutStage
    \/ Adopt
    \/ \E inc \in Includes, m \in MaxTokenChoices, a \in AutoTokenChoices : CtxCall(inc, m, a)
    \/ \E k \in 0..(Cardinality(DOMAIN db)), rev \in BOOLEAN : CtxSearch(k, rev)
    \/ CtxSearchFails
    \/ CtxMerge
    \/ CtxReturn

SpecContext == Init /\ [][NextContext]_vars

-----------------------------------------------------------------------------
(* Measures used by the properties *)

RECURSIVE SumCopies(_, _)
SumCopies(bag, pairs) ==
    IF pairs = {} THEN 0
    ELSE LET e == CHOOSE x \in pairs : TRUE
         IN CopiesIn(e, bag) + SumCopies(bag, pairs \ {e})

\* hierarchy edges into and out of a node, parallel edges counted
InDegree(g, n) == SumCopies(g.edges, {e \in BagToSet(g.edges) : e[2] = n})
OutDegree(g, n) == SumCopies(g.edges, {e \in BagToSet(g.edges) : e[1] = n})

\* the lines the ranges of a chunk's ref name
NamedLines(chunk) == RunLines(chunk.ref.runs, 1)

\* the chunk list a finished task left on its file node
ChunksOf(g, path) == g.nodes[FileId(path)]["chunks"].items

\* the nodes and edges below a file: its chunk nodes and the edges leaving
\* the file or one of them
Below(core, path) ==
    [nodes |-> {n \in DOMAIN core.nodes : n.path = path /\ n.cp # <<>>},
     edges |-> {<<e, CopiesIn(e, core.edges)>> : e \in
                   {x \in BagToSet(core.edges) : x[1].path = path /\ x[2].cp # <<>>}}]

-----------------------------------------------------------------------------
(* C1 *)

\* C1: for a file of N >= 1 lines and a detector output that passed
\* is_chunk_valid, the ranges of the author chunks and of the BASE chunk's ref
\* cover every line 1..N exactly once and name no line outside 1..N.
C1_RangesPartitionFile ==
    \A p \in DOMAIN taskLog :
        (pc = "tasks" /\ taskLog[p].state = "done" /\ taskLog[p].n >= 1) =>
            LET chunks == ChunksOf(work, p)
                n == taskLog[p].n
            IN /\ \A i \in 1..Len(chunks) : NamedLines(chunks[i]) \subseteq 1..n
               /\ \A l \in 1..n :
                     Cardinality({i \in 1..Len(chunks) : l \in NamedLines(chunks[i])}) = 1

-----------------------------------------------------------------------------
(* C2 *)

\* C2: in the graph produced by Hierarchy.annotate followed by
\* Chunker.annotate every node has at most one incoming hierarchy edge,
\* parallel edges and self-loops counted.
C2_HierarchyIsForest ==
    (pc = "layout" /\ {"hierarchy", "chunker"} \subseteq ran) =>
        \A n \in DOMAIN work.nodes : InDegree(work, n) <= 1

-----------------------------------------------------------------------------
(* C3 *)

\* C3: when a refresh completed and the next one runs with the tree
\* unchanged since the first began, the second adopts an equal graph, runs no
\* stage's annotate and makes no upsert or update call.
C3_SecondRefreshIsNoOp ==
    (pc = "adopt" /\ lastOk.valid /\ lastOk.clean) =>
        /\ Core(work) = lastOk.graph
        /\ ran = {}
        /\ writes = 0

\* a second refresh over an unchanged tree is about to adopt a graph that
\* holds chunk nodes
C3_Witness ==
    /\ pc = "adopt" /\ lastOk.valid /\ lastOk.clean
    /\ \E n \in DOMAIN work.nodes : n.cp # <<>>

-----------------------------------------------------------------------------
(* C4 *)

\* C4: when refresh() raises, the daemon's graph has the nodes, node
\* attributes, edges and files_checksum it had when refresh() was called,
\* and the snapshot is the one that was there.
C4_FailedRefreshKeepsGraph ==
    (pc = "idle" /\ outcome = "raised") =>
        /\ Core(graph) = start.graph
        /\ saved = start.saved

\* a refresh that had rebuilt the hierarchy of a changed tree raised, after
\* an earlier refresh had adopted a graph
C4_Witness ==
    /\ pc = "idle" /\ outcome = "raised"
    /\ DOMAIN graph.nodes # {}
    /\ "hierarchy" \in ran

-----------------------------------------------------------------------------
(* C5 *)

\* C5: when the render of the explicit references alone has fewer than
\* max_tokens tokens, the message get_context_message returns has at most
\* max_tokens tokens and exceeds the explicit-only render by at most
\* min(auto_tokens, max_tokens - explicit_tokens) tokens.
C5_MessageWithinBudget ==
    (ctx.pc = "returned" /\ token_counter(ctx.explicit) < ctx.max_tokens) =>
        /\ token_counter(ctx.full) <= ctx.max_tokens
        /\ token_counter(ctx.full) - token_counter(ctx.explicit)
              <= Min(ctx.auto_tokens, ctx.max_tokens - token_counter(ctx.explicit))

\* a message was returned that holds a merged search result, after a later
\* result was refused for the budget
C5_Witness ==
    /\ ctx.pc = "returned"
    /\ token_counter(ctx.explicit) < ctx.max_tokens
    /\ ctx.i > 1
    /\ ctx.i <= Len(ctx.results)
    /\ token_counter(ctx.full) > token_counter(ctx.explicit)

-----------------------------------------------------------------------------
(* C6 *)

\* Hierarchy.annotate and Chunker.annotate called on a graph whose stage is
\* complete (no task is created for a complete graph)
HierarchyAgain(g) == HierarchyAnnotate(fs, get_active_checksums(fs, db))
ChunkerAgain(g) == MergeLoop(1, g, fs, db, {}, <<>>).graph

\* C6: annotate on a graph for which the stage's is_complete is true
\* returns a graph with the same nodes, node attributes and multiset of
\* hierarchy edges, for Hierarchy and for Chunker.
C6_AnnotateIsIdempotent ==
    /\ (pc \in {"chunker", "layout", "adopt"} /\ HierarchyIsComplete(work, fs)) =>
            Core(HierarchyAgain(work)) = Core(work)
    /\ (pc = "layout" /\ "chunker" \in ran /\ ChunkerIsComplete(work) = "True"
            /\ AllHaveRef(work)) =>
            Core(ChunkerAgain(work)) = Core(work)

-----------------------------------------------------------------------------
(* C7 *)

\* a detector chunk the claim calls invalid: its keys are not exactly id,
\* start_line, end_line, or its id has not exactly one ':' followed by a
\* non-empty chunk path
NotWellFormed(chunk) ==
    \/ DOMAIN chunk # {"id", "start_line", "end_line"}
    \/ Len(chunk.id.cp) # 1
    \/ chunk.id.cp[1] = <<>>

GotMalformed(path) ==
    /\ path \in DOMAIN taskLog
    /\ \E i \in 1..Len(taskLog[path].detected) : NotWellFormed(taskLog[path].detected[i])

\* C7: when the detector returned a malformed chunk for a file, the file's
\* task did not finish, the file's store record carries no chunks, and the
\* daemon's graph holds no chunks attribute, chunk node or edge for the file.
C7_MalformedBatchRejected ==
    \A p \in Paths :
        GotMalformed(p) =>
            /\ taskLog[p].state = "failed"
            /\ "chunks" \notin DOMAIN db[taskLog[p].checksum].metadata
            /\ (IsFileNode(graph, p) => ChunksUnset(graph.nodes[FileId(p)]))
            /\ Below(Core(graph), p) = [nodes |-> {}, edges |-> {}]
            /\ pc = "idle" /\ outcome = "raised"

\* a malformed batch was returned for one file after the task of another
\* file had finished
C7_Witness ==
    \E p, q \in Paths :
        /\ GotMalformed(p)
        /\ q \in DOMAIN taskLog /\ taskLog[q].state = "done"

-----------------------------------------------------------------------------
(* C8 *)

\* C8: when the task of one file failed, the refresh still adopts a graph
\* in which the other files of the batch carry their chunks.
C8_FailureIsolated ==
    \A p, q \in DOMAIN taskLog :
        (p # q /\ taskLog[p].state = "failed" /\ pc = "idle") =>
            /\ outcome = "ok"
            /\ IsFileNode(graph, q)
            /\ ~ChunksUnset(graph.nodes[FileId(q)])

-----------------------------------------------------------------------------
(* C9 *)

\* C9: in a graph adopted by a successful refresh, a file node whose chunks
\* attribute is set has exactly one outgoing hierarchy edge, and it goes to
\* "<path>:BASE".
C9_DecomposedFileHasBaseChild ==
    (pc = "idle" /\ outcome = "ok") =>
        \A p \in Paths :
            (IsFileNode(graph, p) /\ ~ChunksUnset(graph.nodes[FileId(p)])) =>
                /\ OutDegree(graph, FileId(p)) = 1
                /\ CopiesIn(<<FileId(p), BaseId(p)>>, graph.edges) = 1

-----------------------------------------------------------------------------
(* C10 *)

\* C10: when a file's content is the same at two consecutive successful
\* refreshes, the chunk nodes and hierarchy edges below it are the same in
\* both adopted graphs.
C10_ChunksStableAcrossRefreshes ==
    (pc = "adopt" /\ saved # <<>>) =>
        \A p \in Paths :
            (fs[p].kind = "text" /\ lastOk.tree[p] = fs[p]) =>
                Below(Core(work), p) = Below(Core(graph), p)

-----------------------------------------------------------------------------
(* C11 *)

\* the checksum of a chunk of a file's list, as the merge step computes it
ChunkChecksum(chunk) == hash_str(get_document(chunk.ref, fs))

\* the chunks of the files the merge step goes through whose ref resolves
MergedChunks(g) ==
    UNION {{ChunksOf(g, p)[i] : i \in 1..Len(ChunksOf(g, p))} : p \in file_nodes(g)}

\* the checksum pass of the Hierarchy stage leaves every record the store
\* held as it was, and a file node built from a held record has its attributes
HierarchyReuses ==
    pc = "hierarchy" =>
        /\ \A c \in DOMAIN db : db'[c] = db[c]
        /\ \A p \in Paths :
              (IsFileNode(work', p) /\ "hierarchy" \in ran' /\ p \in Readable(fs)
                    /\ Has(db, FileChecksum(p, fs))) =>
                  work'.nodes[FileId(p)] = db[FileChecksum(p, fs)].metadata

\* the merge step puts no held checksum in its batch, and the node of a
\* chunk whose checksum was held has the attributes of the held record
MergeReuses ==
    (pc = "tasks" /\ pc' = "layout") =>
        /\ \A i \in 1..Len(batch') : ~Has(db, batch'[i])
        /\ \A chunk \in MergedChunks(work) :
              (CanResolve(chunk.ref, fs) /\ Has(db, ChunkChecksum(chunk))) =>
                  /\ chunk.id \in DOMAIN work'.nodes
                  /\ work'.nodes[chunk.id] = db[ChunkChecksum(chunk)].metadata

\* C11: with refresh not forced, a file or chunk whose checksum has a record
\* in the store is in no upsert batch and its graph node takes the attributes
\* of the stored record; only a checksum the store does not hold is upserted.
C11_StoredRecordsReused == [][HierarchyReuses /\ MergeReuses]_vars

-----------------------------------------------------------------------------
(* C12 *)

RECURSIVE MergePrefix(_, _)
\* the accumulator after the first k results were merged, in rank order,
\* into the explicit references' accumulator
MergePrefix(results, k) ==
    IF k = 0 THEN <<>>
    ELSE MergeResult(MergePrefix(results, k - 1), results[k], k)

\* what the first k results cost over the explicit-only render
PrefixCost(results, k) ==
    token_counter(render_context_message(MergePrefix(results, k))) - ctx.include_tokens

\* C12: the results are merged in rank order up to the first one whose merge
\* exceeds the remaining budget; the message returned is the render of the
\* explicit references and exactly the results ranked before that one.
C12_StopsAtFirstOverBudget ==
    (ctx.pc = "returned" /\ ctx.i >= 1) =>
        /\ ctx.full = render_context_message(MergePrefix(ctx.results, ctx.i - 1))
        /\ \A k \in 1..(ctx.i - 1) : PrefixCost(ctx.results, k) <= ctx.budget
        /\ ctx.i <= Len(ctx.results) => PrefixCost(ctx.results, ctx.i) > ctx.budget
        /\ ctx.i <= Len(ctx.results) + 1

\* a result was refused after another was merged, and a result ranked after
\* the refused one would have fitted
C12_Witness ==
    /\ ctx.pc = "returned"
    /\ ctx.i >= 2
    /\ \E j \in (ctx.i + 1)..Len(ctx.results) :
          /\ "path" \in DOMAIN ctx.results[j]
          /\ token_counter(render_context_message(
                 MergeResult(MergePrefix(ctx.results, ctx.i - 1), ctx.results[j], j)))
               - ctx.include_tokens <= ctx.budget

-----------------------------------------------------------------------------
(* C13 *)

\* a get_context_message call has ended, by returning or by raising
CallEnded == ctx.pc \in {"returned", "raised"}

\* C13: whatever the number of merged results, the text get_context_message
\* returns begins with the explicit-only render, also for a call whose
\* explicit references name paths of the graph that the search finds too.
C13_ExplicitRenderIsPrefix ==
    /\ ctx.pc = "returned" => IsPrefix(ctx.explicit, ctx.full)
    /\ (CallEnded /\ ctx.named # <<>>) => ctx.pc = "returned"

-----------------------------------------------------------------------------
(* C14 *)

\* C14: when the explicit-only render has at least max_tokens tokens (as
\* every render has when max_tokens is 0), get_context_message returns
\* exactly that render and adds no search result.
C14_OverBudgetExplicitReturned ==
    /\ (ctx.pc = "returned" /\ token_counter(ctx.explicit) >= ctx.max_tokens) =>
            ctx.full = ctx.explicit /\ ctx.results = <<>>
    /\ (CallEnded /\ ctx.max_tokens <= 0) => ctx.pc = "returned"

-----------------------------------------------------------------------------
(* C20 *)

\* the lines of the block that the header at position i of a text opens
BlockLines(text, i) ==
    {text[j].n : j \in {k \in (i + 1)..Len(text) :
                          /\ text[k].kind = "line"
                          /\ \A h \in (i + 1)..k : text[h].kind # "header"}}

\* the lines the explicit references to one path select together; a bare
\* path selects every line of the stored document
WantedLines(named, path) ==
    LET n == Len(db[graph.nodes[FileId(path)]["checksum"]].document.text)
    IN UNION {RefLines(named[i], n) : i \in {k \in 1..Len(named) : named[k].path = path}}

\* C20: the explicit references to one path make one block of the returned
\* message, tagged user-included, whose lines are the union of the inclusive
\* ranges of those references, every line of the file for a bare path.
C20_ExplicitRefsMergedPerPath ==
    (CallEnded /\ ctx.named # <<>>) =>
        /\ ctx.pc = "returned"
        /\ \A r \in {ctx.named[k] : k \in 1..Len(ctx.named)} :
              LET heads == {i \in 1..Len(ctx.full) :
                               ctx.full[i].kind = "header" /\ ctx.full[i].id.path = r.path}
              IN /\ Cardinality(heads) = 1
                 /\ \A i \in heads :
                       /\ "user-included" \in ctx.full[i].tags
                       /\ BlockLines(ctx.full, i) = WantedLines(ctx.named, r.path)

-----------------------------------------------------------------------------
(* C15 *)

\* the moves of refresh() through the pipeline: Hierarchy, Chunker (with its
\* tasks), LayoutHierarchy, then the assignment; an exception ends it
StageOrder ==
    pc' # pc =>
        \/ pc' = "idle" /\ (pc = "adopt" \/ outcome' = "raised")
        \/ pc = "idle" /\ pc' = "hierarchy"
        \/ pc = "hierarchy" /\ pc' = "chunker"
        \/ pc = "chunker" /\ pc' \in {"tasks", "layout"}
        \/ pc = "tasks" /\ pc' = "layout"
        \/ pc = "layout" /\ pc' = "adopt"

\* a stage's annotate runs in the stage's turn and only when its
\* is_complete is false on the working copy
AnnotateOnlyIfIncomplete ==
    /\ ("hierarchy" \in ran' \ ran) => (pc = "hierarchy" /\ ~HierarchyIsComplete(work, fs))
    /\ ("chunker" \in ran' \ ran) => (pc = "chunker" /\ ChunkerIsComplete(work) = "False")
    /\ ("layout" \in ran' \ ran) => (pc = "layout" /\ ~LayoutIsComplete(work))

\* the daemon's graph is replaced and saved by the step that follows the
\* last stage, with the working copy that stage left
SwapAfterLastStage ==
    (Core(graph') # Core(graph) \/ saved' # saved) =>
        (pc = "adopt" /\ graph' = work /\ saved' = <<work>>)

\* C15: refresh() visits Hierarchy, Chunker, LayoutHierarchy in this order;
\* annotate runs only for a stage whose is_complete was false on the working
\* copy, after the stage before it has ended; the daemon's graph is replaced
\* and saved only after the last stage.
C15_StagesInOrder == [][StageOrder /\ AnnotateOnlyIfIncomplete /\ SwapAfterLastStage]_vars

\* a refresh is about to assign a graph for which Hierarchy and
\* LayoutHierarchy ran and Chunker was passed over as complete
C15_Witness ==
    /\ pc = "adopt"
    /\ ran = {"hierarchy", "layout"}
    /\ \E p \in Paths : IsFileNode(work, p) /\ ~ChunksUnset(work.nodes[FileId(p)])

-----------------------------------------------------------------------------
(* C16 *)

\* C16: the BASE ref of a chunked file names exactly the lines of 1..N that
\* no author chunk covers, as maximal runs in ascending order, a run of
\* several lines written "start-end" and a run of one line written "n"; with
\* no uncovered line the BASE ref is the bare path.
C16_BaseRefListsUncoveredRuns ==
    pc = "tasks" =>
        \A p \in DOMAIN taskLog :
            (taskLog[p].state = "done" /\ taskLog[p].detected # <<>>) =>
                LET n == taskLog[p].n
                    Runs[S \in SUBSET (1..n)] ==
                        IF S = {} THEN <<>>
                        ELSE LET s == CHOOSE x \in S : \A y \in S : x <= y
                                 e == CHOOSE x \in S :
                                          /\ s..x \subseteq S
                                          /\ x + 1 \notin S
                                          /\ \A y \in S : (s..y \subseteq S) => y <= x
                             IN <<(IF s = e THEN <<s>> ELSE <<s, e>>)>> \o Runs[S \ (s..e)]
                    uncovered == (1..n) \ Covered(taskLog[p].detected, 1)
                    items == ChunksOf(work, p)
                    base == items[Len(items)]
                IN /\ base.id = BaseId(p)
                   /\ base.ref.path = p
                   /\ RunLines(base.ref.runs, 1) = uncovered
                   /\ base.ref.runs = Runs[uncovered]

-----------------------------------------------------------------------------
(* C17 *)

\* the chunk nodes a merge gave their record
ChunkNodes(g) ==
    {id \in DOMAIN g.nodes : "type" \in DOMAIN g.nodes[id] /\ g.nodes[id]["type"] = "chunk"}

\* the hierarchy edges from the file node down to a chunk id by the
\* dot-segment rule
AncestorEdges(id) ==
    LET segments == id.cp[1]
        Upto(k) == ChunkId(id.path, SubSeq(segments, 1, k))
    IN {<<FileId(id.path), BaseId(id.path)>>, <<BaseId(id.path), Upto(1)>>}
       \cup {<<Upto(k - 1), Upto(k)>> : k \in 2..Len(segments)}

\* C17: after the merge step every chunk that was added to the graph has the
\* hierarchy edges from its parent id, from that id's parent, and so on up to
\* the BASE chunk and from the file node to the BASE chunk, also where an
\* intermediate id was not returned by the detector.
C17_AncestorEdgesAdded ==
    (pc = "layout" /\ "chunker" \in ran) =>
        \A id \in ChunkNodes(work) : \A e \in AncestorEdges(id) : BagIn(e, work.edges)


\* a merge added the method chunk A.m of a file whose detector did not return
\* the class chunk A: A is a node without a record, between BASE and A.m
C17_Witness ==
    /\ pc = "layout"
    /\ "chunker" \in ran
    /\ \E id \in ChunkNodes(work) :
          /\ Len(id.cp[1]) = 2
          /\ ChunkId(id.path, <<id.cp[1][1]>>) \notin ChunkNodes(work)
          /\ BagIn(<<BaseId(id.path), ChunkId(id.path, <<id.cp[1][1]>>)>>, work.edges)

-----------------------------------------------------------------------------
(* C18 *)

\* the nodes a graph reaches from ROOT along its edges
FromRoot(g) ==
    LET Hop[k \in 0..Cardinality(DOMAIN g.nodes)] ==
            IF k = 0 THEN {ROOT}
            ELSE Hop[k - 1] \cup {e[2] : e \in {x \in BagToSet(g.edges) : x[1] \in Hop[k - 1]}}
    IN Hop[Cardinality(DOMAIN g.nodes)]

\* the graph Hierarchy.annotate returns has one node per file of the tree
\* that reads as text (its attributes are the record the store holds under
\* the file's checksum), one directory node per directory above one of them,
\* ROOT, one edge per (parent, child) pair, and nothing else
TreeShaped(g, tree) ==
    LET files == {p \in Tracked(tree) : tree[p].kind = "text"}
        dirs == UNION {{SubSeq(p, 1, k) : k \in 1..(Len(p) - 1)} : p \in files}
        above(x) == IF Len(x) > 1 THEN FileId(SubSeq(x, 1, Len(x) - 1)) ELSE ROOT
        pairs == {<<above(x), FileId(x)>> : x \in files \cup dirs}
    IN /\ DOMAIN g.nodes = {FileId(x) : x \in files \cup dirs}
                               \cup (IF files = {} THEN {} ELSE {ROOT})
       /\ \A n \in DOMAIN g.nodes : n.path \notin files => g.nodes[n]["type"] = "directory"
       /\ BagToSet(g.edges) = pairs
       /\ \A e \in pairs : CopiesIn(e, g.edges) = 1
       /\ DOMAIN g.nodes \subseteq FromRoot(g) \cup {ROOT}

\* C18: whatever the tracked paths, Hierarchy.annotate returns a graph with
\* one node per tracked file, one directory node per distinct directory above
\* a file, one hierarchy edge per (parent, child) pair however many files
\* share the directory, and every node reachable from the one node ROOT.
C18_HierarchyIsTree ==
    [][("hierarchy" \in ran' \ ran) => TreeShaped(work', fs)]_vars

\* Hierarchy.annotate has just built a graph over a tree in which two files
\* share the directory d
C18_Witness ==
    /\ pc = "chunker"
    /\ "hierarchy" \in ran
    /\ IsFileNode(work, BPy)
    /\ IsFileNode(work, CMd)
    /\ CopiesIn(<<ROOT, FileId(<<"d">>)>>, work.edges) = 1

-----------------------------------------------------------------------------
(* C19 *)

\* the tracked files that do not decode as text, and the tree without them
Undecodable(tree) == {p \in Paths : tree[p].kind = "binary"}
WithoutUndecodable(tree) == [p \in Paths |-> IF tree[p].kind = "binary" THEN Absent ELSE tree[p]]

\* the Hierarchy stage passes over the files that do not decode: no record is
\* written for them and the fingerprint is that of the tree without them
SkippedByChecksums ==
    (pc = "hierarchy" /\ pc' = "chunker") =>
        /\ \A c \in DOMAIN db' \ DOMAIN db : c.md5.ref.path \notin Undecodable(fs)
        /\ HierarchyIsComplete(work, fs) <=> HierarchyIsComplete(work, WithoutUndecodable(fs))
        /\ \A p \in Paths \ Undecodable(fs) :
              fs[p].kind = "text" => Has(db', [md5 |-> [ref |-> PathRef(p), text |-> fs[p].lines]])

\* the graph Hierarchy.annotate returns has no node for them, its
\* fingerprint does not count them, and every other tracked file has its
\* node and the edges up to ROOT
SkippedByAnnotate ==
    ("hierarchy" \in ran' \ ran) =>
        /\ \A p \in Undecodable(fs) : FileId(p) \notin DOMAIN work'.nodes
        /\ work'.attrs["files_checksum"] = files_checksum(WithoutUndecodable(fs))
        /\ \A p \in Paths \ Undecodable(fs) :
              fs[p].kind = "text" =>
                  /\ FileId(p) \in DOMAIN work'.nodes
                  /\ work'.nodes[FileId(p)]["checksum"] = [md5 |-> [ref |-> PathRef(p), text |-> fs[p].lines]]
                  /\ \A k \in 1..Len(p) :
                        BagIn(<<(IF k > 1 THEN FileId(SubSeq(p, 1, k - 1)) ELSE ROOT),
                                FileId(SubSeq(p, 1, k))>>, work'.edges)

\* C19: a tracked file that cannot be decoded as text is skipped, with no
\* graph node, no store record and no part in files_checksum, and every other
\* tracked file gets its node, its record and its hierarchy edges in the same
\* refresh.
C19_UndecodableFileSkipped == [][SkippedByChecksums /\ SkippedByAnnotate]_vars

\* Hierarchy.annotate has just built a graph over a tree whose d/b.py does
\* not decode while d/c.md, in the same directory, does
C19_Witness ==
    /\ pc = "chunker"
    /\ "hierarchy" \in ran
    /\ fs[BPy].kind = "binary"
    /\ FileId(BPy) \notin DOMAIN work.nodes
    /\ IsFileNode(work, CMd)

-----------------------------------------------------------------------------
(* ContextBuilder (ragdaemon/context.py, as tests/annotators/test_comments.py uses it) *)

\* add_comment calls made on one builder, over all its paths
MaxComments == 3

\* the comments a caller passes: a plain string, an {author, content} dict,
\* and one with replies
Comments ==
    { [kind |-> "string"],
      [kind |-> "dict", replies |-> FALSE],
      [kind |-> "dict", replies |-> TRUE] }

\* the lines render() writes for one comment
render_comment(comment) ==
    IF comment.kind = "string" THEN << <<"<comment>", "content", "</comment>">> >>
    ELSE << <<"<comment>">>, <<"<author>">>, <<"<content>">> >>
         \o (IF comment.replies
             THEN << <<"<replies>">>, <<"<author>">>, <<"<content>">>, <<"</replies>">> >>
             ELSE <<>>)
         \o << <<"</comment>">> >>

RECURSIVE CommentsAt(_, _, _)
\* the rendered comments of one line, in the order they were added; line 0
\* holds the comments added without a line
CommentsAt(comments, line, i) ==
    IF i > Len(comments) THEN <<>>
    ELSE (IF comments[i].line = line THEN render_comment(comments[i].comment) ELSE <<>>)
         \o CommentsAt(comments, line, i + 1)

RECURSIVE RenderFileLines(_, _, _, _)
RenderFileLines(entry, text, sorted, i) ==
    IF i > Len(sorted) THEN <<>>
    ELSE << <<"line", sorted[i], text[sorted[i]]>> >>
         \o CommentsAt(entry.comments, sorted[i], 1)
         \o RenderFileLines(entry, text, sorted, i + 1)

\* render() of one path: the header, the file-level comments, then each
\* line with its number, followed by the comments on it
RenderFile(b, path, tree) ==
    << <<"header", path>> >>
    \o CommentsAt(b[path].comments, 0, 1)
    \o RenderFileLines(b[path], tree[path].lines, Ascending(b[path].lines), 1)

RECURSIVE RenderPaths(_, _, _)
RenderPaths(b, tree, i) ==
    IF i > Len(PathOrder) THEN <<>>
    ELSE (IF PathOrder[i] \in DOMAIN b THEN RenderFile(b, PathOrder[i], tree) ELSE <<>>)
         \o RenderPaths(b, tree, i + 1)

render(b, tree) == RenderPaths(b, tree, 1)

\* what a remove_comments found to remove: a file-level comment, two
\* comments on one line, a comment with replies
Removed(comments) ==
    [file_level |-> \E i \in 1..Len(comments) : comments[i].line = 0,
     same_line |-> \E i, j \in 1..Len(comments) :
                       i # j /\ comments[i].line = comments[j].line /\ comments[i].line > 0,
     replies |-> \E i \in 1..Len(comments) :
                     comments[i].comment.kind = "dict" /\ comments[i].comment.replies]

\* a remove_comments that drops the comments on lines and keeps those of the file
remove_comments_on_lines(b, path) ==
    [b EXCEPT ![path].comments = SelectSeq(@, LAMBDA c : c.line = 0),
              ![path].removed = Removed(b[path].comments)]

remove_comments(b, path) ==
    [b EXCEPT ![path].comments = <<>>,
              ![path].removed = Removed(b[path].comments)]

CommentsAdded(b) ==
    LET Sum[S \in SUBSET DOMAIN b] ==
            IF S = {} THEN 0
            ELSE LET p == CHOOSE q \in S : TRUE
                 IN b[p].added + Sum[S \ {p}]
    IN Sum[DOMAIN b]

\* context.add_ref(path): the whole file is selected
AddRef(path) ==
    /\ pc = "idle"
    /\ path \notin DOMAIN builder
    /\ CanResolve(PathRef(path), fs)
    /\ builder' = Put(builder, path,
                      [lines |-> 1..Len(fs[path].lines), comments |-> <<>>,
                       added |-> 0, removed |-> Removed(<<>>)])
    /\ UNCHANGED <<fs, db, graph, saved, pc, work, pending, ran, writes,
                   outcome, start, lastOk, taskLog, batch, edits, refreshes, ctx, lookup>>

\* context.add_comment(path, comment, line=None)
AddComment(path, comment, line) ==
    /\ pc = "idle"
    /\ path \in DOMAIN builder
    /\ line \in {0} \cup builder[path].lines
    /\ CommentsAdded(builder) < MaxComments
    /\ builder' = [builder EXCEPT ![path].comments =
                      Append(@, [line |-> line, comment |-> comment]),
                                  ![path].added = @ + 1]
    /\ UNCHANGED <<fs, db, graph, saved, pc, work, pending, ran, writes,
                   outcome, start, lastOk, taskLog, batch, edits, refreshes, ctx, lookup>>

\* context.remove_comments(path)
RemoveComments(path) ==
    /\ pc = "idle"
    /\ path \in DOMAIN builder
    /\ builder' = remove_comments(builder, path)
    /\ UNCHANGED <<fs, db, graph, saved, pc, work, pending, ran, writes,
                   outcome, start, lastOk, taskLog, batch, edits, refreshes, ctx, lookup>>

\* the builder is made over a daemon whose tree holds a.py (2 lines) and
\* d/c.md (1 line)
InitBuilder ==
    /\ Init
    /\ fs = [p \in Paths |-> IF p = APy THEN Text(<<1, 2>>)
                              ELSE IF p = CMd THEN Text(<<1>>) ELSE Absent]
    /\ db = NoNodes

NextBuilder ==
    \/ \E p \in Paths : AddRef(p)
    \/ \E p \in Paths, c \in Comments, l \in 0..2 : AddComment(p, c, l)
    \/ \E p \in Paths : RemoveComments(p)

SpecBuilder == InitBuilder /\ [][NextBuilder]_vars

-----------------------------------------------------------------------------
(* C21 *)

-----------------------------------------------------------------------------
(* C22 *)

\* the files a graph holds: the path and the checksum of every node keyed by
\* a path that carries a checksum
FilesOf(g) ==
    {<<n.path, g.nodes[n]["checksum"]>> :
        n \in {x \in DOMAIN g.nodes : x.cp = <<>> /\ "checksum" \in DOMAIN g.nodes[x]}}

\* the files of the working tree that read as text, each with the checksum
\* of its path and lines
FilesNow(tree) ==
    {<<p, [md5 |-> [ref |-> PathRef(p), text |-> tree[p].lines]]>> :
        p \in {q \in Paths : tree[q].kind = "text"}}

\* the Hierarchy stage rebuilds whenever the working copy's files are not
\* those of the tree
StaleHierarchyRebuilt ==
    (pc = "hierarchy" /\ pc' = "chunker" /\ FilesOf(work) # FilesNow(fs)) =>
        ("hierarchy" \in ran' /\ FilesOf(work') = FilesNow(fs))

\* a refresh during which the tree did not change adopts a graph whose every
\* node is ROOT, a tracked file, a directory above one, or a chunk of one
NoUntrackedSurvives ==
    (pc = "adopt" /\ pc' = "idle" /\ lastOk.clean) =>
        \A n \in DOMAIN graph'.nodes :
            \/ n = ROOT
            \/ \E p \in Paths : fs[p].kind = "text" /\ IsPrefix(n.path, p)

\* C22: Hierarchy.is_complete is false whenever the tracked files are not
\* those the graph was built from (a file added, deleted, renamed or moved
\* with the same content, or edited), so the next refresh rebuilds the
\* hierarchy and adopts no node for a path that is no longer tracked.
C22_StaleHierarchyRebuilt == [][StaleHierarchyRebuilt /\ NoUntrackedSurvives]_vars

\* a refresh rebuilt the hierarchy after a file was moved with its content:
\* the graph adopted before has a file the tree has not, and the tree holds
\* the same text under another path
C22_Witness ==
    /\ pc = "chunker"
    /\ "hierarchy" \in ran
    /\ \E p, q \in Paths :
          /\ p # q
          /\ \E f \in FilesOf(graph) : f[1] = p /\ f[2].md5.text = fs[q].lines
          /\ fs[p].kind = "absent"
          /\ fs[q].kind = "text"
          /\ \A f \in FilesOf(graph) : f[1] # q
    /\ {f[2].md5.text : f \in FilesOf(graph)} = {f[2].md5.text : f \in FilesOf(work)}

-----------------------------------------------------------------------------
(* C23 *)

\* C23: once query_graph has returned or raised, no store record has
\* active = true: the flags set for the query are reverted on every way out,
\* a failure of the store's query call included.
C23_FlagsRevertedOnEveryExit == Flagged(db) = {}

-----------------------------------------------------------------------------
(* C24 *)

\* a node's ref names lines the file has, and the ref with those lines hashes
\* to the node's checksum
RefYieldsChecksum(data, tree) ==
    LET ref == data["ref"]
        text == tree[ref.path].lines
        named == IF ref.runs = <<>> THEN 1..Len(text) ELSE RunLines(ref.runs, 1)
        sorted == Ascending(named)
    IN /\ tree[ref.path].kind = "text"
       /\ named \subseteq 1..Len(text)
       /\ data["checksum"] = [md5 |-> [ref |-> ref, text |-> [i \in 1..Len(sorted) |-> text[sorted[i]]]]]

-----------------------------------------------------------------------------
(* C25 *)

\* what a finished task left for its file is what its own file and its own
\* detector output give, in the file node and in the file's record
TaskEffectIsOwn(p) ==
    LET log == taskLog[p]
        chunks == IF log.n = 0 THEN <<>> ELSE StandardChunks(p, log.n, log.detected)
    IN /\ log.n = Len(fs[p].lines)
       /\ work.nodes[FileId(p)]["chunks"] = [json |-> FALSE, items |-> chunks]
       /\ work.nodes[FileId(p)]["checksum"] = log.checksum
       /\ db[log.checksum].metadata["chunks"] = [json |-> TRUE, items |-> chunks]

\* a task that has not finished has left nothing, whatever the others did
TaskUntouched(p) ==
    /\ "chunks" \notin DOMAIN work.nodes[FileId(p)]
    /\ "chunks" \notin DOMAIN db[taskLog[p].checksum].metadata

-----------------------------------------------------------------------------
(* C26 *)

\* C26: every node of a graph built by Hierarchy.annotate and
\* Chunker.annotate has an id attribute equal to its key and a type
\* attribute (so no two nodes share an id).
C26_NodesCarryOwnId ==
    (pc = "layout" /\ "chunker" \in ran) =>
        \A n \in DOMAIN work.nodes :
            /\ "id" \in DOMAIN work.nodes[n]
            /\ work.nodes[n]["id"] = n
            /\ "type" \in DOMAIN work.nodes[n]

-----------------------------------------------------------------------------
(* C27 *)

\* the checksum ids of the batch get_active_checksums passes to upsert
HierarchyBatch(tree, store) ==
    LET entries == NewFileEntries(tree, store, 1)
    IN [i \in 1..Len(entries) |-> entries[i].id]

NoRepeat(ids) == \A i, j \in 1..Len(ids) : ids[i] = ids[j] => i = j

\* C27: no batch passed to the store's upsert, by the checksum pass of the
\* Hierarchy stage or by Chunker.annotate, holds the same checksum id twice.
C27_UpsertBatchHasNoRepeat ==
    [][/\ (pc = "hierarchy" /\ pc' = "chunker") => NoRepeat(HierarchyBatch(fs, db))
       /\ (pc = "tasks" /\ pc' = "layout") => NoRepeat(batch')]_vars

-----------------------------------------------------------------------------
(* C28 *)

Refreshing(g) == "refreshing" \in DOMAIN g.attrs /\ g.attrs["refreshing"]

\* C28: the refreshing flag is true on the daemon's graph only while a
\* refresh runs: once refresh() has returned or raised the daemon's graph
\* does not have it, and no persisted snapshot ever has it.
C28_RefreshingOnlyDuringRefresh ==
    /\ pc = "idle" => ~Refreshing(graph)
    /\ \A i \in 1..Len(saved) : ~Refreshing(saved[i])

-----------------------------------------------------------------------------
(* Daemon.search (daemon.py:60-62) over a tree that changes between refreshes *)

\* search(query): query_graph over the daemon's graph
Search(k, rev) ==
    /\ pc = "idle"
    /\ ctx.pc = "none"
    /\ k < Cardinality(Flagged(query_graph_store_raised(graph, db))) \/ k = 0
    /\ db' = query_graph_store(graph, db)
    /\ ctx' = [NoCall EXCEPT !.pc = "returned", !.results = Response(graph, db, k, rev)]
    /\ UNCHANGED <<fs, graph, saved, pc, work, pending, ran, writes,
                   outcome, start, lastOk, taskLog, batch, edits, refreshes,
                   builder, lookup>>

\* search(query) when the store's query call raises
SearchFails ==
    /\ pc = "idle"
    /\ ctx.pc = "none"
    /\ ActiveIds(graph, db) # {}
    /\ db' = query_graph_store_raised(graph, db)
    /\ ctx' = [NoCall EXCEPT !.pc = "raised"]
    /\ UNCHANGED <<fs, graph, saved, pc, work, pending, ran, writes,
                   outcome, start, lastOk, taskLog, batch, edits, refreshes,
                   builder, lookup>>

\* the store holds the records of the tracked files when the daemon starts
InitSearch ==
    /\ Init
    /\ db = SeededStore(fs)

\* the daemon refreshing a tree that changes and answering searches
NextSearch ==
    \/ \E p \in Paths, st \in FileStates : EditFile(p, st)
    \/ RefreshBegin
    \/ HierarchyStage
    \/ ChunkerSkip
    \/ ChunkerKeyError
    \/ ChunkerStart
    \/ \E p \in Paths : \E d \in DetectorOutputs(p, Len(fs[p].lines)) : TaskDone(p, d)
    \/ ChunkerMerge({})
    \/ LayoutStage
    \/ Adopt
    \/ \E k \in 0..(Cardinality(DOMAIN db)), rev \in BOOLEAN : Search(k, rev)
    \/ SearchFails

SpecSearch == InitSearch /\ [][NextSearch]_vars

-----------------------------------------------------------------------------
(* C29 *)

\* the checksums of the nodes of a graph
NodeChecksums(g) ==
    {g.nodes[n]["checksum"] : n \in {m \in DOMAIN g.nodes : "checksum" \in DOMAIN g.nodes[m]}}

\* C29: query_graph returns only records whose checksum belongs to a node of
\* the graph passed in, in order of non-decreasing distance, whatever
\* refreshes and searches came before: a record left in the store for a
\* deleted or changed file is never returned.
C29_OnlyRecordsOfTheGraph ==
    [][(ctx' # ctx /\ ctx'.pc = "returned") =>
          /\ \A j \in 1..Len(ctx'.results) : ctx'.results[j]["checksum"] \in NodeChecksums(graph)
          /\ \A i, j \in 1..Len(ctx'.results) :
                i < j => ctx'.results[i]["distance"] <= ctx'.results[j]["distance"]]_vars

-----------------------------------------------------------------------------
(* C30 *)

\* the ref of a listed chunk names lines the file has
Resolves(chunk, tree) ==
    /\ tree[chunk.ref.path].kind = "text"
    /\ (IF chunk.ref.runs = <<>> THEN {} ELSE RunLines(chunk.ref.runs, 1))
           \subseteq 1..Len(tree[chunk.ref.path].lines)

\* the checksum of a listed chunk whose ref resolves
ListedChecksum(chunk, tree) ==
    LET text == tree[chunk.ref.path].lines
        sorted == Ascending(IF chunk.ref.runs = <<>> THEN 1..Len(text)
                            ELSE RunLines(chunk.ref.runs, 1))
    IN [md5 |-> [ref |-> chunk.ref, text |-> [i \in 1..Len(sorted) |-> text[sorted[i]]]]]

\* the chunks of the lists the merge step goes through
Listed(g) ==
    UNION {{g.nodes[FileId(p)]["chunks"].items[i] :
               i \in 1..Len(g.nodes[FileId(p)]["chunks"].items)} : p \in file_nodes(g)}

\* one merge step: a listed chunk whose ref does not resolve or whose lookup
\* raised gets no node and no entry; every other listed chunk has a node
\* with its checksum and a record, which is in the batch when it is new
SkipsOnlyTheFailing ==
    (pc = "tasks" /\ pc' = "layout") =>
        LET skipped(c) == ~Resolves(c, fs) \/ c.id \in lookup'
            others(c) == {d \in Listed(work) : ~skipped(d) /\ (d.id = c.id \/ d.ref = c.ref)}
        IN \A c \in Listed(work) :
              IF skipped(c)
              THEN others(c) = {} =>
                      /\ c.id \notin ChunkNodes(work') \ ChunkNodes(work)
                      /\ \A j \in 1..Len(batch') : batch'[j].md5.ref # c.ref
              ELSE /\ ListedChecksum(c, fs) \in NodeChecksums(work')
                   /\ ListedChecksum(c, fs) \in DOMAIN db'
                   /\ ListedChecksum(c, fs) \in DOMAIN db
                         \/ \E j \in 1..Len(batch') : batch'[j] = ListedChecksum(c, fs)

-----------------------------------------------------------------------------
(* render_context_message called on its own (daemon.py:64-80) *)

\* the longest document a rendered context holds
MaxRenderLines == 4

\* the tree the rendered documents are read from: every line of a file is
\* its own text
RenderTree ==
    [p \in Paths |->
        IF p = APy THEN Text([i \in 1..MaxRenderLines |-> i])
        ELSE IF p = CMd THEN Text([i \in 1..(MaxRenderLines - 1) |-> i])
        ELSE Absent]

\* one entry of the context dict: any selection of the lines of the document
RenderEntries(p) ==
    {[key |-> p, id |-> FileId(p), lines |-> ls, tags |-> {1},
      document |-> get_document(PathRef(p), RenderTree)] :
        ls \in SUBSET (1..Len(RenderTree[p].lines))}

\* the context dicts handed to render_context_message, in insertion order
RenderContexts ==
    {<<e>> : e \in RenderEntries(APy) \cup RenderEntries(CMd)}
    \cup {<<e, f>> : e \in RenderEntries(APy), f \in RenderEntries(CMd)}
    \cup {<<f, e>> : e \in RenderEntries(APy), f \in RenderEntries(CMd)}

InitRender ==
    /\ fs = RenderTree
    /\ db = NoNodes
    /\ graph = EmptyGraph
    /\ saved = <<>>
    /\ pc = "idle"
    /\ work = EmptyGraph
    /\ pending = {}
    /\ ran = {}
    /\ writes = 0
    /\ outcome = "none"
    /\ start = [graph |-> Core(EmptyGraph), saved |-> <<>>]
    /\ lastOk = [valid |-> FALSE, clean |-> TRUE, graph |-> Core(EmptyGraph), tree |-> fs]
    /\ taskLog = NoNodes
    /\ batch = <<>>
    /\ edits = 0
    /\ refreshes = 0
    /\ ctx \in {[NoCall EXCEPT !.pc = "render", !.context = c] : c \in RenderContexts}
    /\ builder = NoNodes
    /\ lookup = {}

\* daemon.render_context_message(context): the returned text
Render ==
    /\ ctx.pc = "render"
    /\ ctx' = [ctx EXCEPT !.pc = "rendered", !.full = render_context_message(ctx.context)]
    /\ UNCHANGED <<fs, db, graph, saved, pc, work, pending, ran, writes,
                   outcome, start, lastOk, taskLog, batch, edits, refreshes,
                   builder, lookup>>

NextRender == Render

SpecRender == InitRender /\ [][NextRender]_vars

-----------------------------------------------------------------------------
(* C31 *)

\* the positions of the header lines of a rendered text, in order
HeaderPositions(out) == Ascending({p \in 1..Len(out) : out[p].kind = "header"})

\* the positions of the numbered lines of the j-th block of a rendered text
BlockPositions(out, j) ==
    LET hs == HeaderPositions(out)
        end == IF j < Len(hs) THEN hs[j + 1] ELSE Len(out) + 1
    IN {p \in (hs[j] + 1)..(end - 1) : out[p].kind = "line"}

\* the line number rendered last before position p: that of the nearest
\* numbered line above p, 0 when a header comes first
RenderedBefore(out, p) ==
    LET above == {q \in 1..(p - 1) : out[q].kind \in {"line", "header"}}
        q == CHOOSE r \in above : \A t \in above : t <= r
    IN IF out[q].kind = "header" THEN 0 ELSE out[q].n

\* the block of every path holds the selected lines and no other, each with
\* its number and its text, in ascending order
SelectedLinesAscending(context, out) ==
    /\ Len(HeaderPositions(out)) = Len(context)
    /\ \A j \in 1..Len(context) :
          /\ out[HeaderPositions(out)[j]].id = context[j].id
          /\ {out[p].n : p \in BlockPositions(out, j)} = context[j].lines
          /\ \A p \in BlockPositions(out, j) :
                /\ out[p].text = context[j].document.text[out[p].n]
                /\ out[p].n > RenderedBefore(out, p)

\* a numbered line comes right after an ellipsis line exactly when its number
\* exceeds the one rendered before it by more than one, and an ellipsis line
\* stands between a header or a numbered line and a numbered line
EllipsisExactlyAtGaps(out) ==
    /\ \A p \in 1..Len(out) :
          out[p].kind = "line" =>
             /\ p > 1
             /\ (out[p - 1].kind = "ellipsis") <=> (out[p].n - RenderedBefore(out, p) > 1)
    /\ \A p \in 1..Len(out) :
          out[p].kind = "ellipsis" =>
             /\ p > 1 /\ p < Len(out)
             /\ out[p - 1].kind \in {"header", "line"}
             /\ out[p + 1].kind = "line"

\* C31: render_context_message writes the selected lines of each path in
\* ascending order, each with its line number, and one ellipsis line exactly
\* where the next rendered line number exceeds the one rendered before it by
\* more than one, the position before the first line counting as 0, and
\* nowhere else.
C31_EllipsisMarksEveryGap ==
    ctx.pc = "rendered" =>
        /\ SelectedLinesAscending(ctx.context, ctx.full)
        /\ EllipsisExactlyAtGaps(ctx.full)

\* a rendered context of two paths: lines 2 and 4 of the first, with an
\* ellipsis line before each, and lines 1 and 2 of the second with none
C31_Witness ==
    /\ ctx.pc = "rendered"
    /\ Len(ctx.context) = 2
    /\ ctx.context[1].lines = {2, 4}
    /\ ctx.context[2].lines = {1, 2}
    /\ Cardinality({p \in 1..Len(ctx.full) : ctx.full[p].kind = "ellipsis"}) = 2

====
